---- MODULE Spec2Model ----
(***************************************************************************)
(* Model of vulkan-helper (src/main.rs): a one-shot command line tool with *)
(* three subcommands (instance-version, physical-versions, nvapi-path).    *)
(* Each run is a linear sequence of native calls; a failed expect/unwrap/  *)
(* panic! ends the run with exit code 101 and nothing on stdout.           *)
(*                                                                         *)
(* Text is modelled as sequences of bytes (a Rust String/str is UTF-8      *)
(* bytes), stdout as the sequence of writes made to it.                    *)
(***************************************************************************)
EXTENDS Integers, Sequences, FiniteSets

VARIABLES
    command,    \* the parsed subcommand (Cli::parse)
    pc,         \* position of the run in main / the selected operation
    exit,       \* "running", "ok" (exit 0) or "panic" (exit 101)
    diag,       \* the panic message of an aborted run
    stdout,     \* sequence of writes made to stdout
    data,       \* main's `data`: the JSON text to print
    entry,      \* outcome of Entry::load(): "none", "loaded", "failed"
    query,      \* outcome of try_enumerate_instance_version
    instance,   \* the VkInstance: "none", "failed", "live", "destroyed"
    enumres,    \* outcome of enumerate_physical_devices: "none", "ok", "err"
    devices,    \* properties of the enumerated devices, in enumeration order
    idx,        \* position of the for loop in `devices`
    array,      \* get_physical_versions' `array`
    nvngx,      \* the dlopen handle: "unopened", "null", "open", "closed"
    dlerr,      \* what dlerror() returns: the loader's last error message
    ret,        \* dlinfo's return value
    l_name,     \* (*info).l_name, the link-map name bytes
    path,       \* get_nvapi_path's `path`
    vin,        \* version round trip: <<major, minor, patch>> to pack
    vpacked,    \* version round trip: the packed u32
    vout,       \* version round trip: the unpacked <<major, minor, patch>>
    nbuf,       \* name decoding: the device_name buffer
    nres        \* name decoding: the outcome

vars == <<command, pc, exit, diag, stdout, data, entry, query, instance,
          enumres, devices, idx, array, nvngx, dlerr, ret, l_name, path,
          vin, vpacked, vout, nbuf, nres>>

opVars   == <<command, pc, exit, diag, stdout, data, entry, query, instance,
              enumres, devices, idx, array, nvngx, dlerr, ret, l_name, path>>
verVars  == <<vin, vpacked, vout>>
nameVars == <<nbuf, nres>>

----------------------------------------------------------------------------
(* Bounds of the model *)

\* number of physical devices an enumeration returns at most
MaxDevices == 2
\* length of the device_name buffer in the model (256 in the Vulkan headers)
NameBufLen == 3

----------------------------------------------------------------------------
(* u32 arithmetic *)

\* width of the packed version integers (u32)
Width == 32

RECURSIVE Pow2(_)
Pow2(n) == IF n = 0 THEN 1 ELSE 2 * Pow2(n - 1)

\* x << n on Width bits: the bits shifted out are lost
Shl(x, n) == (x % Pow2(Width - n)) * Pow2(n)
Shr(x, n) == x \div Pow2(n)

RECURSIVE BitAnd(_, _)
BitAnd(a, b) ==
    IF a = 0 \/ b = 0 THEN 0
    ELSE (IF a % 2 = 1 /\ b % 2 = 1 THEN 1 ELSE 0) + 2 * BitAnd(a \div 2, b \div 2)

RECURSIVE BitOr(_, _)
BitOr(a, b) ==
    IF a = 0 THEN b
    ELSE IF b = 0 THEN a
    ELSE (IF a % 2 = 1 \/ b % 2 = 1 THEN 1 ELSE 0) + 2 * BitOr(a \div 2, b \div 2)

\* vk::make_api_version(variant, major, minor, patch)
make_api_version(variant, major, minor, patch) ==
    BitOr(BitOr(BitOr(Shl(variant, 29), Shl(major, 22)), Shl(minor, 12)), patch)

\* vk::api_version_major(version)
api_version_major(version) == BitAnd(Shr(version, 22), 127)

api_version_minor_shift10(version) == BitAnd(Shr(version, 10), 1023)
\* vk::api_version_minor(version)
api_version_minor(version) == BitAnd(Shr(version, 12), 1023)

\* vk::api_version_patch(version)
api_version_patch(version) == BitAnd(version, 4095)

----------------------------------------------------------------------------
(* Text: byte sequences, UTF-8 validation, trimming *)

NUL == 0

InRange(b, lo, hi) == lo <= b /\ b <= hi
IsCont(s, i) == i <= Len(s) /\ InRange(s[i], 128, 191)

\* core::str::from_utf8's validation, from position i on: the well-formed
\* byte sequences of Unicode table 3-7
RECURSIVE ValidUtf8From(_, _)
ValidUtf8From(s, i) ==
    IF i > Len(s) THEN TRUE
    ELSE LET b == s[i] IN
         IF b < 128 THEN ValidUtf8From(s, i + 1)
         ELSE IF InRange(b, 194, 223)
              THEN IsCont(s, i + 1) /\ ValidUtf8From(s, i + 2)
         ELSE IF b = 224
              THEN i + 1 <= Len(s) /\ InRange(s[i + 1], 160, 191)
                   /\ IsCont(s, i + 2) /\ ValidUtf8From(s, i + 3)
         ELSE IF InRange(b, 225, 236) \/ InRange(b, 238, 239)
              THEN IsCont(s, i + 1) /\ IsCont(s, i + 2) /\ ValidUtf8From(s, i + 3)
         ELSE IF b = 237
              THEN i + 1 <= Len(s) /\ InRange(s[i + 1], 128, 159)
                   /\ IsCont(s, i + 2) /\ ValidUtf8From(s, i + 3)
         ELSE IF b = 240
              THEN i + 1 <= Len(s) /\ InRange(s[i + 1], 144, 191)
                   /\ IsCont(s, i + 2) /\ IsCont(s, i + 3) /\ ValidUtf8From(s, i + 4)
         ELSE IF InRange(b, 241, 243)
              THEN IsCont(s, i + 1) /\ IsCont(s, i + 2) /\ IsCont(s, i + 3)
                   /\ ValidUtf8From(s, i + 4)
         ELSE IF b = 244
              THEN i + 1 <= Len(s) /\ InRange(s[i + 1], 128, 143)
                   /\ IsCont(s, i + 2) /\ IsCont(s, i + 3) /\ ValidUtf8From(s, i + 4)
         ELSE FALSE

\* std::str::from_utf8(slice).is_ok()
from_utf8_ok(s) == ValidUtf8From(s, 1)

trim_end_matches_none(s) == s
\* str::trim_end_matches('\0'): drop the NUL characters the text ends with
RECURSIVE trim_end_matches_nul(_)
trim_end_matches_nul(s) ==
    IF Len(s) > 0 /\ s[Len(s)] = NUL
    THEN trim_end_matches_nul(SubSeq(s, 1, Len(s) - 1))
    ELSE s

DecodeName_lossy(buf) == [ok |-> TRUE, name |-> trim_end_matches_nul(buf)]
\* main.rs:70-71: the outcome of decoding a device_name buffer; ok = FALSE is
\* the unwrap() of from_utf8's Err
DecodeName(buf) ==
    IF from_utf8_ok(buf)
    THEN [ok |-> TRUE, name |-> trim_end_matches_nul(buf)]
    ELSE [ok |-> FALSE, name |-> <<>>]

----------------------------------------------------------------------------
(* JSON text written by serde_json::to_string, as bytes *)

RECURSIVE Dec(_)
\* decimal digits of an unsigned integer
Dec(n) == IF n < 10 THEN <<48 + n>> ELSE Dec(n \div 10) \o <<48 + (n % 10)>>

HexDigit(d) == IF d < 10 THEN 48 + d ELSE 87 + d

\* serde_json's escape of one byte of a string
EscapeByte(b) ==
    IF b = 34 THEN <<92, 34>>
    ELSE IF b = 92 THEN <<92, 92>>
    ELSE IF b = 8 THEN <<92, 98>>
    ELSE IF b = 12 THEN <<92, 102>>
    ELSE IF b = 10 THEN <<92, 110>>
    ELSE IF b = 13 THEN <<92, 114>>
    ELSE IF b = 9 THEN <<92, 116>>
    ELSE IF b < 32 THEN <<92, 117, 48, 48, HexDigit(b \div 16), HexDigit(b % 16)>>
    ELSE <<b>>

RECURSIVE EscapeBytes(_)
EscapeBytes(s) ==
    IF s = <<>> THEN <<>> ELSE EscapeByte(Head(s)) \o EscapeBytes(Tail(s))

\* a String as a JSON string
JsonString(s) == <<34>> \o EscapeBytes(s) \o <<34>>

\* [u32; 3] as a JSON array, e.g. [1,3,0]
JsonVersion(v) ==
    <<91>> \o Dec(v[1]) \o <<44>> \o Dec(v[2]) \o <<44>> \o Dec(v[3]) \o <<93>>

\* a Device as a JSON object {"name":..,"major":..,"minor":..,"patch":..}
JsonDevice(d) ==
    <<123>> \o <<34, 110, 97, 109, 101, 34, 58>> \o JsonString(d.name)
    \o <<44, 34, 109, 97, 106, 111, 114, 34, 58>> \o Dec(d.major)
    \o <<44, 34, 109, 105, 110, 111, 114, 34, 58>> \o Dec(d.minor)
    \o <<44, 34, 112, 97, 116, 99, 104, 34, 58>> \o Dec(d.patch)
    \o <<125>>

RECURSIVE JsonDeviceItems(_)
JsonDeviceItems(a) ==
    IF a = <<>> THEN <<>>
    ELSE IF Len(a) = 1 THEN JsonDevice(a[1])
    ELSE JsonDevice(a[1]) \o <<44>> \o JsonDeviceItems(Tail(a))

\* Vec<Device> as a JSON array
JsonDevices(a) == <<91>> \o JsonDeviceItems(a) \o <<93>>

----------------------------------------------------------------------------
(* Paths *)

SLASH == 47

RECURSIVE StripSlashes(_)
\* drop the separators a path ends with
StripSlashes(p) ==
    IF Len(p) > 0 /\ p[Len(p)] = SLASH
    THEN StripSlashes(SubSeq(p, 1, Len(p) - 1))
    ELSE p

RECURSIVE StripComponent(_)
\* drop the bytes of the last component
StripComponent(p) ==
    IF Len(p) > 0 /\ p[Len(p)] # SLASH
    THEN StripComponent(SubSeq(p, 1, Len(p) - 1))
    ELSE p

\* Path::parent for paths without "." components: none for the empty path and
\* for the root, else the path without its last component
PathParent(p) ==
    LET q == StripSlashes(p)
        r == StripComponent(q)
    IN  IF q = <<>> THEN [some |-> FALSE, path |-> <<>>]
        ELSE IF r # <<>> /\ StripSlashes(r) = <<>>
             THEN [some |-> TRUE, path |-> <<SLASH>>]
        ELSE [some |-> TRUE, path |-> StripSlashes(r)]

----------------------------------------------------------------------------
(* What the platform can answer *)

Commands == {"InstanceVersion", "PhysicalVersions", "NvapiPath"}

\* packed versions a runtime or a device reports
ApiVersions == {make_api_version(0, 1, 3, 0), make_api_version(0, 1, 2, 198)}

\* results of try_enumerate_instance_version
QueryResults ==
    {[kind |-> "some", version |-> v] : v \in ApiVersions}
    \cup {[kind |-> "none", version |-> 0], [kind |-> "err", version |-> 0]}

CPU == "CPU"
DeviceTypes == {"DISCRETE_GPU", "OTHER", CPU}

\* pad a name to the length of the device_name buffer
RECURSIVE PadName(_)
PadName(s) == IF Len(s) >= NameBufLen THEN s ELSE PadName(s \o <<NUL>>)

\* device_name buffers of enumerated devices: "", "G", "e-acute", a lone lead
\* byte, and "G" NUL "X"
DeviceNames ==
    {PadName(s) : s \in {<<>>, <<71>>, <<195, 169>>, <<195>>, <<71, NUL, 88>>}}

\* VkPhysicalDeviceProperties, the fields the program reads
DeviceProps ==
    [device_type : DeviceTypes, device_name : DeviceNames, api_version : ApiVersions]

RECURSIVE SeqsUpTo(_, _)
SeqsUpTo(S, n) ==
    IF n = 0 THEN {<<>>}
    ELSE LET shorter == SeqsUpTo(S, n - 1)
         IN  shorter \cup {Append(q, x) : q \in {t \in shorter : Len(t) = n - 1}, x \in S}

\* what enumerate_physical_devices can return
DeviceLists == SeqsUpTo(DeviceProps, MaxDevices)

\* dlerror(): a null pointer, or a message (valid text or not)
NoDlerror == [null |-> TRUE, text |-> <<>>]
DlerrorResults ==
    {NoDlerror}
    \cup {[null |-> FALSE, text |-> t] : t \in {<<101, 114, 114>>, <<101, 255>>}}

\* link-map names: "/u/n", "/n", "n", "/", "" and a name that is not UTF-8
LinkNames ==
    {<<47, 117, 47, 110>>, <<47, 110>>, <<110>>, <<47>>, <<>>, <<47, 255>>}

DlinfoResults == {0, -1}

NoDiag == [msg |-> "", has_dlerror |-> FALSE, dlerror |-> <<>>]
NoQuery == [kind |-> "unasked", version |-> 0]

\* get_dlerror(): "No Error" for a null dlerror, the message when it is text;
\* ok = FALSE is the expect of to_str's Err
get_dlerror(e) ==
    IF e.null THEN [ok |-> TRUE, text |-> <<78, 111, 32, 69, 114, 114, 111, 114>>]
    ELSE IF from_utf8_ok(e.text) THEN [ok |-> TRUE, text |-> e.text]
    ELSE [ok |-> FALSE, text |-> <<>>]

----------------------------------------------------------------------------
(* The run *)

OpInit ==
    /\ pc = "main"
    /\ exit = "running"
    /\ diag = NoDiag
    /\ stdout = <<>>
    /\ data = <<>>
    /\ entry = "none"
    /\ query = NoQuery
    /\ instance = "none"
    /\ enumres = "none"
    /\ devices = <<>>
    /\ idx = 1
    /\ array = <<>>
    /\ nvngx = "unopened"
    /\ dlerr = NoDlerror
    /\ ret = 0
    /\ l_name = <<>>
    /\ path = <<>>

VerIdle == vin = <<0, 0, 0>> /\ vpacked = 0 /\ vout = <<0, 0, 0>>
NameIdle == nbuf = <<>> /\ nres = [done |-> FALSE, ok |-> FALSE, name |-> <<>>]

Init ==
    /\ command \in Commands
    /\ OpInit
    /\ VerIdle
    /\ NameIdle

\* a failed expect / unwrap / panic!: the process ends with exit code 101
Panic(m) ==
    /\ exit' = "panic"
    /\ diag' = [msg |-> m, has_dlerror |-> FALSE, dlerror |-> <<>>]

PanicDlerror_plain(m, e) ==
    /\ exit' = "panic"
    /\ diag' = [msg |-> m, has_dlerror |-> FALSE, dlerror |-> <<>>]
\* panic!("...: {}", get_dlerror()): the message carries get_dlerror's text,
\* unless get_dlerror itself panics
PanicDlerror(m, e) ==
    LET g == get_dlerror(e)
    IN  /\ exit' = "panic"
        /\ diag' = IF g.ok
                   THEN [msg |-> m, has_dlerror |-> TRUE, dlerror |-> g.text]
                   ELSE [msg |-> "failed to convert to str",
                         has_dlerror |-> FALSE, dlerror |-> <<>>]

Running(at) == exit = "running" /\ pc = at

\* main.rs:140-141: dispatch on the subcommand
Dispatch ==
    /\ Running("main")
    /\ command \in Commands
    /\ pc' = CASE command = "InstanceVersion" -> "iv_load"
               [] command = "PhysicalVersions" -> "pv_load"
               [] command = "NvapiPath" -> "nv_dlopen"
    /\ UNCHANGED <<command, exit, diag, stdout, data, entry, query, instance,
                   enumres, devices, idx, array, nvngx, dlerr, ret, l_name, path>>
    /\ UNCHANGED <<verVars, nameVars>>

\* main.rs:29: Entry::load().expect("Failed to load vulkan")
IV_Load ==
    /\ Running("iv_load")
    /\ \E ok \in BOOLEAN :
          IF ok
          THEN /\ entry' = "loaded"
               /\ pc' = "iv_query"
               /\ UNCHANGED <<exit, diag>>
          ELSE /\ entry' = "failed"
               /\ Panic("Failed to load vulkan")
               /\ UNCHANGED pc
    /\ UNCHANGED <<command, stdout, data, query, instance, enumres, devices,
                   idx, array, nvngx, dlerr, ret, l_name, path>>
    /\ UNCHANGED <<verVars, nameVars>>

InstanceVersionOf_sentinel1(q) ==
    IF q.kind = "some"
    THEN <<api_version_major(q.version), api_version_minor(q.version),
           api_version_patch(q.version)>>
    ELSE <<1, 0, 0>>
\* main.rs:30-38: the version of the runtime, or [0,0,0]
InstanceVersionOf(q) ==
    IF q.kind = "some"
    THEN <<api_version_major(q.version), api_version_minor(q.version),
           api_version_patch(q.version)>>
    ELSE <<0, 0, 0>>

\* main.rs:30-38, 144: query the runtime version, serialize the answer
IV_Query ==
    /\ Running("iv_query")
    /\ \E q \in QueryResults :
          /\ query' = q
          /\ data' = JsonVersion(InstanceVersionOf(q))
    /\ pc' = "print"
    /\ UNCHANGED <<command, exit, diag, stdout, entry, instance, enumres,
                   devices, idx, array, nvngx, dlerr, ret, l_name, path>>
    /\ UNCHANGED <<verVars, nameVars>>

\* main.rs:42: Entry::load().expect("Failed to load vulkan")
PV_Load ==
    /\ Running("pv_load")
    /\ \E ok \in BOOLEAN :
          IF ok
          THEN /\ entry' = "loaded"
               /\ pc' = "pv_create"
               /\ UNCHANGED <<exit, diag>>
          ELSE /\ entry' = "failed"
               /\ Panic("Failed to load vulkan")
               /\ UNCHANGED pc
    /\ UNCHANGED <<command, stdout, data, query, instance, enumres, devices,
                   idx, array, nvngx, dlerr, ret, l_name, path>>
    /\ UNCHANGED <<verVars, nameVars>>

\* main.rs:44-57: create_instance(..).expect("Failed to create Vulkan instance")
PV_CreateInstance ==
    /\ Running("pv_create")
    /\ \E ok \in BOOLEAN :
          IF ok
          THEN /\ instance' = "live"
               /\ pc' = "pv_enumerate"
               /\ UNCHANGED <<exit, diag>>
          ELSE /\ instance' = "failed"
               /\ Panic("Failed to create Vulkan instance")
               /\ UNCHANGED pc
    /\ UNCHANGED <<command, stdout, data, entry, query, enumres, devices, idx,
                   array, nvngx, dlerr, ret, l_name, path>>
    /\ UNCHANGED <<verVars, nameVars>>

PV_Enumerate_lenient ==
    /\ Running("pv_enumerate")
    /\ \/ /\ \E ds \in DeviceLists : devices' = ds
          /\ enumres' = "ok"
       \/ /\ devices' = <<>>
          /\ enumres' = "err"
    /\ idx' = 1
    /\ array' = <<>>
    /\ pc' = "pv_loop"
    /\ UNCHANGED <<command, exit, diag, stdout, data, entry, query, instance,
                   nvngx, dlerr, ret, l_name, path>>
    /\ UNCHANGED <<verVars, nameVars>>
\* main.rs:59-62: enumerate_physical_devices().expect("Failed to enumerate devices")
PV_Enumerate ==
    /\ Running("pv_enumerate")
    /\ \/ /\ \E ds \in DeviceLists : devices' = ds
          /\ enumres' = "ok"
          /\ idx' = 1
          /\ array' = <<>>
          /\ pc' = "pv_loop"
          /\ UNCHANGED <<exit, diag>>
       \/ /\ enumres' = "err"
          /\ Panic("Failed to enumerate devices")
          /\ UNCHANGED <<devices, idx, array, pc>>
    /\ UNCHANGED <<command, stdout, data, entry, query, instance, nvngx, dlerr,
                   ret, l_name, path>>
    /\ UNCHANGED <<verVars, nameVars>>

SkipsNone(properties) == FALSE
\* main.rs:66: the device is skipped
IsSoftware(properties) == properties.device_type = CPU

\* main.rs:73-81: the Device pushed for a device whose name decoded to `name`
DeviceOf(properties, name) ==
    [name  |-> name,
     major |-> api_version_major(properties.api_version),
     minor |-> api_version_minor(properties.api_version),
     patch |-> api_version_patch(properties.api_version)]

\* main.rs:63-83: one iteration of the for loop
PV_Loop ==
    /\ Running("pv_loop")
    /\ idx <= Len(devices)
    /\ LET properties == devices[idx]
           decoded == DecodeName(properties.device_name)
       IN  IF IsSoftware(properties)
           THEN /\ idx' = idx + 1
                /\ UNCHANGED <<array, exit, diag>>
           ELSE IF decoded.ok
           THEN /\ array' = Append(array, DeviceOf(properties, decoded.name))
                /\ idx' = idx + 1
                /\ UNCHANGED <<exit, diag>>
           ELSE /\ Panic("called Result::unwrap() on an Err value")
                /\ UNCHANGED <<array, idx>>
    /\ UNCHANGED <<command, pc, stdout, data, entry, query, instance, enumres,
                   devices, nvngx, dlerr, ret, l_name, path>>
    /\ UNCHANGED <<verVars, nameVars>>

\* main.rs:85-86, 148: destroy_instance, return array
PV_Destroy ==
    /\ Running("pv_loop")
    /\ idx > Len(devices)
    /\ instance' = "destroyed"
    /\ data' = JsonDevices(array)
    /\ pc' = "print"
    /\ UNCHANGED <<command, exit, diag, stdout, entry, query, enumres, devices,
                   idx, array, nvngx, dlerr, ret, l_name, path>>
    /\ UNCHANGED <<verVars, nameVars>>

\* main.rs:103-108: dlopen; panic!("dlopen failed: {}", get_dlerror()) on null
NV_Dlopen ==
    /\ Running("nv_dlopen")
    /\ \/ /\ nvngx' = "open"
          /\ pc' = "nv_dlinfo"
          /\ UNCHANGED <<dlerr, exit, diag>>
       \/ /\ nvngx' = "null"
          /\ \E e \in DlerrorResults :
                /\ dlerr' = e
                /\ PanicDlerror("dlopen failed", e)
          /\ UNCHANGED pc
    /\ UNCHANGED <<command, stdout, data, entry, query, instance, enumres,
                   devices, idx, array, ret, l_name, path>>
    /\ UNCHANGED <<verVars, nameVars>>

\* main.rs:111-116: dlinfo; panic!("dlinfo failed: ..", ret, get_dlerror())
NV_Dlinfo ==
    /\ Running("nv_dlinfo")
    /\ \E r \in DlinfoResults :
          /\ ret' = r
          /\ IF r # 0
             THEN /\ \E e \in DlerrorResults :
                        /\ dlerr' = e
                        /\ PanicDlerror("dlinfo failed", e)
                  /\ UNCHANGED <<pc, l_name>>
             ELSE /\ \E n \in LinkNames : l_name' = n
                  /\ pc' = "nv_path"
                  /\ UNCHANGED <<dlerr, exit, diag>>
    /\ UNCHANGED <<command, stdout, data, entry, query, instance, enumres,
                   devices, idx, array, nvngx, path>>
    /\ UNCHANGED <<verVars, nameVars>>

\* main.rs:118-119: to_str().expect(..), parent().expect(..)
NV_Path ==
    /\ Running("nv_path")
    /\ IF ~from_utf8_ok(l_name)
       THEN /\ Panic("Failed to convert to str")
            /\ UNCHANGED <<pc, path>>
       ELSE IF ~PathParent(l_name).some
       THEN /\ Panic("Failed to get parent path")
            /\ UNCHANGED <<pc, path>>
       ELSE /\ path' = PathParent(l_name).path
            /\ pc' = "nv_dlclose"
            /\ UNCHANGED <<exit, diag>>
    /\ UNCHANGED <<command, stdout, data, entry, query, instance, enumres,
                   devices, idx, array, nvngx, dlerr, ret, l_name>>
    /\ UNCHANGED <<verVars, nameVars>>

\* main.rs:121-123, 152: dlclose, return the path as text
NV_Dlclose ==
    /\ Running("nv_dlclose")
    /\ nvngx' = "closed"
    /\ data' = JsonString(path)
    /\ pc' = "print"
    /\ UNCHANGED <<command, exit, diag, stdout, entry, query, instance, enumres,
                   devices, idx, array, dlerr, ret, l_name, path>>
    /\ UNCHANGED <<verVars, nameVars>>

\* main.rs:155-156: print!("{}", data), then main returns
PrintData ==
    /\ Running("print")
    /\ stdout' = Append(stdout, data)
    /\ exit' = "ok"
    /\ pc' = "done"
    /\ UNCHANGED <<command, diag, data, entry, query, instance, enumres, devices,
                   idx, array, nvngx, dlerr, ret, l_name, path>>
    /\ UNCHANGED <<verVars, nameVars>>

Next ==
    \/ Dispatch
    \/ IV_Load
    \/ IV_Query
    \/ PV_Load
    \/ PV_CreateInstance
    \/ PV_Enumerate
    \/ PV_Loop
    \/ PV_Destroy
    \/ NV_Dlopen
    \/ NV_Dlinfo
    \/ NV_Path
    \/ NV_Dlclose
    \/ PrintData

Spec == Init /\ [][Next]_vars

----------------------------------------------------------------------------
(* Packing and unpacking a version, on its own *)

Majors == {0, 1, 64, 127, 128}
Minors == {0, 3, 512, 1023, 1024}
Patches == {0, 198, 2048, 4095, 4096}

VerInit ==
    /\ command = "none"
    /\ OpInit
    /\ vin \in Majors \X Minors \X Patches
    /\ vpacked = 0
    /\ vout = <<0, 0, 0>>
    /\ NameIdle

\* main.rs:46-47: vk::make_api_version(0, major, minor, patch)
Pack ==
    /\ command = "none"
    /\ pc = "main"
    /\ vpacked' = make_api_version(0, vin[1], vin[2], vin[3])
    /\ pc' = "packed"
    /\ UNCHANGED <<command, exit, diag, stdout, data, entry, query, instance,
                   enumres, devices, idx, array, nvngx, dlerr, ret, l_name, path>>
    /\ UNCHANGED <<vin, vout, nameVars>>

\* main.rs:31-35, 73-75: api_version_major / _minor / _patch
Unpack ==
    /\ pc = "packed"
    /\ vout' = <<api_version_major(vpacked), api_version_minor(vpacked),
                 api_version_patch(vpacked)>>
    /\ pc' = "unpacked"
    /\ UNCHANGED <<command, exit, diag, stdout, data, entry, query, instance,
                   enumres, devices, idx, array, nvngx, dlerr, ret, l_name, path>>
    /\ UNCHANGED <<vin, vpacked, nameVars>>

NextVersion == Pack \/ Unpack

SpecVersion == VerInit /\ [][NextVersion]_vars

----------------------------------------------------------------------------
(* Decoding a device_name buffer, on its own *)

\* NUL, "G", "X" and the two bytes of e-acute
NameAlphabet == {NUL, 71, 88, 195, 169}

RECURSIVE SeqsOfLen(_, _)
SeqsOfLen(S, n) ==
    IF n = 0 THEN {<<>>}
    ELSE {Append(q, x) : q \in SeqsOfLen(S, n - 1), x \in S}

NameBuffers == SeqsOfLen(NameAlphabet, NameBufLen)

NameInit ==
    /\ command = "decode"
    /\ OpInit
    /\ VerIdle
    /\ nbuf \in NameBuffers
    /\ nres = [done |-> FALSE, ok |-> FALSE, name |-> <<>>]

\* main.rs:70-71: from_utf8(slice).unwrap().trim_end_matches('\0')
Decode ==
    /\ command = "decode"
    /\ pc = "main"
    /\ LET d == DecodeName(nbuf)
       IN  nres' = [done |-> TRUE, ok |-> d.ok, name |-> d.name]
    /\ pc' = "decoded"
    /\ UNCHANGED <<command, exit, diag, stdout, data, entry, query, instance,
                   enumres, devices, idx, array, nvngx, dlerr, ret, l_name, path>>
    /\ UNCHANGED <<nbuf, verVars>>

NextName == Decode

SpecName == NameInit /\ [][NextName]_vars

----------------------------------------------------------------------------
(* Properties *)

Ended == exit # "running"

NotCpu(d) == d.device_type # CPU
\* the enumerated devices that are not software devices, in enumeration order
Hardware(ds) == SelectSeq(ds, NotCpu)

RECURSIVE BeforeFirstNul(_)
\* the bytes of a buffer before its first NUL
BeforeFirstNul(b) ==
    IF b = <<>> \/ Head(b) = NUL THEN <<>>
    ELSE <<Head(b)>> \o BeforeFirstNul(Tail(b))

HasNul(s) == \E i \in 1..Len(s) : s[i] = NUL

\* a buffer that is text without NUL followed by NULs only
IsPaddedText(b) ==
    LET pre == BeforeFirstNul(b)
    IN  /\ ValidUtf8From(pre, 1)
        /\ \A i \in (Len(pre) + 1)..Len(b) : b[i] = NUL

\* some enumerated hardware device has a name that is not text
BadNameEnumerated ==
    /\ enumres = "ok"
    /\ \E i \in 1..Len(devices) :
          NotCpu(devices[i]) /\ ~ValidUtf8From(devices[i].device_name, 1)

ZeroVersionJson == <<91, 48, 44, 48, 44, 48, 93>>

\* C1: once the instance is created, no run of physical-versions ends with
\* the instance not destroyed (success path and failure paths alike)
C1_InstanceDestroyedOnEveryExit ==
    (command = "PhysicalVersions" /\ Ended) => instance # "live"

\* C2: once dlopen returned a handle, no run of nvapi-path ends with the
\* handle still open (success path and failure paths alike)
C2_HandleClosedOnEveryExit ==
    (command = "NvapiPath" /\ Ended) => nvngx # "open"

\* C3 as stated: whenever the runtime cannot be queried (library not loaded,
\* entry point absent, query error) instance-version prints exactly [0,0,0]
\* and exits zero
C3_UnqueryableIsZeroVersion ==
    (/\ command = "InstanceVersion"
     /\ Ended
     /\ (entry = "failed" \/ query.kind \in {"none", "err"}))
    => (exit = "ok" /\ stdout = <<ZeroVersionJson>>)

\* C3 amended: with the library loaded, an absent entry point or a failed
\* query makes instance-version print exactly [0,0,0] and exit zero; a
\* library that cannot be loaded aborts the run with nothing printed
C3_LoadedUnqueryableIsZeroVersion ==
    (command = "InstanceVersion" /\ Ended)
    => /\ (entry = "loaded" /\ query.kind \in {"none", "err"})
             => (exit = "ok" /\ stdout = <<ZeroVersionJson>>)
       /\ entry = "failed" => (exit = "panic" /\ stdout = <<>>)

C3_Witness ==
    /\ command = "InstanceVersion"
    /\ exit = "ok"
    /\ query.kind = "none"
    /\ stdout = <<ZeroVersionJson>>

\* a native call of the run has failed
NativeFailure ==
    \/ entry = "failed"
    \/ instance = "failed"
    \/ enumres = "err"
    \/ nvngx = "null"
    \/ ret # 0

\* C4: every failure aborts the run (non-zero exit) with nothing on stdout;
\* JSON is on stdout only when the operation completed, and then once
C4_FailureAbortsBeforeOutput ==
    /\ NativeFailure => (exit = "panic" /\ stdout = <<>>)
    /\ BadNameEnumerated => (exit # "ok" /\ stdout = <<>>)
    /\ exit = "panic" => stdout = <<>>
    /\ stdout # <<>> =>
          /\ Len(stdout) = 1
          /\ stdout[1] = data
          /\ exit = "ok"
          /\ pc = "done"
          /\ ~NativeFailure
          /\ ~BadNameEnumerated
          /\ command = "InstanceVersion" => query.kind # "unasked"
          /\ command = "PhysicalVersions" => (enumres = "ok" /\ idx > Len(devices))
          /\ command = "NvapiPath" => nvngx = "closed"

C4_Witness ==
    /\ command = "NvapiPath"
    /\ nvngx = "null"
    /\ exit = "panic"
    /\ stdout = <<>>

\* the record expected for a hardware device: its name is the buffer without
\* the NULs it ends with, its version the unpacked api_version
IsRecordOf(r, d) ==
    /\ PadName(r.name) = d.device_name
    /\ (r.name = <<>> \/ r.name[Len(r.name)] # NUL)
    /\ r.major = api_version_major(d.api_version)
    /\ r.minor = api_version_minor(d.api_version)
    /\ r.patch = api_version_patch(d.api_version)

\* C5: the list returned is the enumeration without the software devices,
\* in enumeration order, one record per remaining device
C5_OutputIsHardwareInOrder ==
    (command = "PhysicalVersions" /\ pc \in {"print", "done"})
    => LET hw == Hardware(devices)
       IN  /\ Len(array) = Len(hw)
           /\ \A i \in 1..Len(hw) : IsRecordOf(array[i], hw[i])
           /\ data = JsonDevices(array)

C5_Witness ==
    /\ command = "PhysicalVersions"
    /\ pc = "done"
    /\ Len(devices) = 2
    /\ devices[1].device_type = CPU
    /\ devices[2].device_type = "OTHER"
    /\ Len(array) = 1

\* C6: when a hardware device of the enumeration has a name that is not
\* text, no record is output and the run does not complete; every record
\* built carries the device's name bytes unchanged
C6_AllOrNothing ==
    /\ BadNameEnumerated =>
          /\ stdout = <<>>
          /\ data = <<>>
          /\ pc = "pv_loop"
          /\ idx <= Len(devices)
          /\ exit # "ok"
    /\ (command = "PhysicalVersions" /\ enumres = "ok") =>
          \A i \in 1..Len(array) :
             /\ ValidUtf8From(array[i].name, 1)
             /\ PadName(array[i].name) = Hardware(devices)[i].device_name

C6_Witness ==
    /\ command = "PhysicalVersions"
    /\ exit = "panic"
    /\ idx = 2
    /\ Len(array) = 1
    /\ ~ValidUtf8From(devices[2].device_name, 1)
    /\ stdout = <<>>

InFieldWidths(v) == v[1] \in 0..127 /\ v[2] \in 0..1023 /\ v[3] \in 0..4095

\* C7: for major in 0..127, minor in 0..1023, patch in 0..4095, unpacking the
\* packed (0, major, minor, patch) yields (major, minor, patch)
C7_VersionRoundTrip ==
    (pc = "unpacked" /\ InFieldWidths(vin)) => vout = vin

C7_Witness ==
    /\ pc = "unpacked"
    /\ vin = <<1, 3, 0>>
    /\ vpacked = 4206592
    /\ vout = <<1, 3, 0>>

\* C8: a buffer made of text without NUL followed only by NULs decodes to
\* exactly that text; the all-NUL buffer decodes to the empty name
C8_PaddingStripped ==
    (nres.done /\ IsPaddedText(nbuf))
    => (nres.ok /\ nres.name = BeforeFirstNul(nbuf))

C8_Witness ==
    /\ nres.done
    /\ nbuf = PadName(<<71, 88>>)
    /\ nres.ok
    /\ nres.name = <<71, 88>>

\* C9 as stated: every failure of nvapi-path aborts with a diagnostic that
\* reports the loader's last error message
C9_EveryFailureReportsDlerror ==
    (command = "NvapiPath" /\ exit = "panic")
    => diag.has_dlerror

\* C9 amended: a dlopen or dlinfo failure aborts with a diagnostic carrying
\* get_dlerror's text (the dlerror message when it is text, "No Error" when
\* dlerror is null, and get_dlerror's own abort when it is not text); a name
\* that is not text or a path without parent aborts with a fixed message
\* that does not report dlerror
C9_LoaderFailuresReportDlerror ==
    (command = "NvapiPath" /\ exit = "panic")
    => /\ pc \in {"nv_dlopen", "nv_dlinfo", "nv_path"}
       /\ pc \in {"nv_dlopen", "nv_dlinfo"} =>
             /\ (~dlerr.null /\ ValidUtf8From(dlerr.text, 1))
                   => (diag.has_dlerror /\ diag.dlerror = dlerr.text)
             /\ dlerr.null
                   => (/\ diag.has_dlerror
                       /\ diag.dlerror = <<78, 111, 32, 69, 114, 114, 111, 114>>)
             /\ (~dlerr.null /\ ~ValidUtf8From(dlerr.text, 1))
                   => (~diag.has_dlerror /\ diag.msg = "failed to convert to str")
             /\ diag.has_dlerror
                   => diag.msg = (IF pc = "nv_dlopen" THEN "dlopen failed"
                                                      ELSE "dlinfo failed")
       /\ pc = "nv_path" =>
             /\ ~diag.has_dlerror
             /\ diag.msg \in {"Failed to convert to str", "Failed to get parent path"}

C9_Witness ==
    /\ command = "NvapiPath"
    /\ exit = "panic"
    /\ pc = "nv_dlinfo"
    /\ diag.has_dlerror
    /\ diag.dlerror = <<101, 114, 114>>

\* C10: every device name in the physical-versions output has no NUL and is
\* the content of the device's buffer before its first NUL
C10_NameStopsAtFirstNul ==
    (command = "PhysicalVersions" /\ pc \in {"print", "done"})
    => \A i \in 1..Len(array) :
          /\ ~HasNul(array[i].name)
          /\ array[i].name = BeforeFirstNul(Hardware(devices)[i].device_name)

====
